---- MODULE Spec2Model ----
(***************************************************************************)
(* The map-generation request handler of src/app/page.tsx (POST,           *)
(* isRateLimited, cleanOldFiles) as a state machine.                       *)
(*                                                                         *)
(* One Node.js process runs the handler.  JavaScript runs to completion:   *)
(* the code between two awaits is one step as far as other requests and    *)
(* timer callbacks of the same process are concerned.  The file system and *)
(* the child processes are shared with the outside (other PM2 workers, an  *)
(* operator, the renderer), so every fs call inside cleanOldFiles is a     *)
(* step of its own and outside steps may fall between two of them.         *)
(***************************************************************************)
EXTENDS Integers, Sequences, FiniteSets, TLC

(* ---- program constants ---- *)
RATE_LIMIT == 10
WINDOW_MS == 60000
maxAge == 3600000

(* ---- bounds of the model ---- *)
MaxBurst == 12
MaxFiles == 2
MaxChunks == 1
MaxWindows == 1
MaxPair == 2

\* the instants at which the model reads the clock: whole windows from the start,
\* the moment a file written at the start turns maxAge old, and one window later
Instants == {k * WINDOW_MS : k \in 0..MaxWindows} \cup {maxAge, maxAge + WINDOW_MS}
MaxNow == maxAge + WINDOW_MS
\* the requests the process may hold at once
Slots == {1, 2}
\* the values Math.random() returns, as numerators over 36: 0 and 1/36
Rand == {0, 1}
ExitCodes == {0, 1}
\* the code of the close event that follows a failed spawn (a negative errno)
SpawnFailCode == -2

(* ---- request inputs ---- *)
NoHeader == "<null>"
Headers == {NoHeader, "", "203.0.113.7"}

Str(s) == [t |-> "string", v |-> s]
Num(n) == [t |-> "number", v |-> n]
Undefined == [t |-> "undefined", v |-> 0]
Obj(f) == [t |-> "object", v |-> f]
Null == [t |-> "null", v |-> 0]

MapTypes == {"default", "minimal", "detailed", "retro", "modern",
             "nature", "dark", "light", "colorful", "monochrome"}
ColorKeys == <<"building_color", "street_color", "water_color", "park_color",
               "background_color">>
HexDigits == {"0","1","2","3","4","5","6","7","8","9",
              "A","B","C","D","E","F","a","b","c","d","e","f"}

\* /^#[0-9A-Fa-f]{6}$/ on a string given as its sequence of characters
HexColorUnanchored(s) ==
    /\ Len(s) >= 7
    /\ s[1] = "#"
    /\ \A i \in 2..7 : s[i] \in HexDigits

HexColor(s) ==
    /\ Len(s) = 7
    /\ s[1] = "#"
    /\ \A i \in 2..7 : s[i] \in HexDigits

AddressOk(a) == a.t = "string" /\ Len(a.v) >= 1 /\ Len(a.v) <= 200
MapTypeOk(m) == m.t = "string" /\ m.v \in MapTypes
ScaleOkFrom5(s) == s.t = "number" /\ s.v >= 5 /\ s.v <= 1000
ScaleOk(s) == s.t = "number" /\ s.v >= 50 /\ s.v <= 1000
ColorOk(c) == c.t = "undefined" \/ (c.t = "string" /\ HexColor(c.v))
ColorsOk(cc) ==
    \/ cc.t = "undefined"
    \/ /\ cc.t = "object"
       /\ \A i \in 1..Len(ColorKeys) : ColorOk(cc.v[ColorKeys[i]])

\* the issues zod reports, in schema order; parse succeeds iff there are none
RequestSchemaIssues(b) ==
    (IF AddressOk(b.address) THEN <<>> ELSE <<"address">>)
    \o (IF MapTypeOk(b.mapType) THEN <<>> ELSE <<"mapType">>)
    \o (IF ScaleOk(b.scale) THEN <<>> ELSE <<"scale">>)
    \o (IF ColorsOk(b.customColors) THEN <<>> ELSE <<"customColors">>)

RequestSchemaParses(b) == RequestSchemaIssues(b) = <<>>

NoColors == [i \in {ColorKeys[k] : k \in 1..Len(ColorKeys)} |-> Undefined]
Addr == <<"1", "6", "0", "0", " ", "A", "m", "p">>
\* extra: a key the schema does not name
BodyPlain == [json |-> TRUE, address |-> Str(Addr), mapType |-> Str("default"),
              scale |-> Num(500), customColors |-> Undefined, extra |-> Undefined]
BodyColors == [BodyPlain EXCEPT !.customColors =
                 Obj([NoColors EXCEPT !["water_color"] =
                        Str(<<"#", "0", "0", "a", "A", "f", "F">>)])]
BodyScale5 == [BodyPlain EXCEPT !.scale = Num(5)]
BodyBroken == [BodyPlain EXCEPT !.json = FALSE]
Chars(n) == [i \in 1..n |-> "a"]
OneColor(key, s) == Obj([NoColors EXCEPT ![key] = s])
\* payloads on and across each limit of the schema, one rule at a time
EdgeKeys == {"addr0", "addr1", "addr200", "addr201", "addrNum", "addrNone",
             "typeBad", "typeNone", "scale49", "scale50", "scale1000", "scale1001",
             "scaleStr", "colorsNone", "colorShort", "colorLong", "colorNoHash",
             "colorBadDigit", "colorEmpty", "colorNull", "colorNum", "extraKey",
             "addr0scale49"}
EdgeBody(k) ==
    CASE k = "addr0" -> [BodyPlain EXCEPT !.address = Str(<<>>)]
      [] k = "addr1" -> [BodyPlain EXCEPT !.address = Str(Chars(1))]
      [] k = "addr200" -> [BodyPlain EXCEPT !.address = Str(Chars(200))]
      [] k = "addr201" -> [BodyPlain EXCEPT !.address = Str(Chars(201))]
      [] k = "addrNum" -> [BodyPlain EXCEPT !.address = Num(16)]
      [] k = "addrNone" -> [BodyPlain EXCEPT !.address = Undefined]
      [] k = "typeBad" -> [BodyPlain EXCEPT !.mapType = Str("Default")]
      [] k = "typeNone" -> [BodyPlain EXCEPT !.mapType = Undefined]
      [] k = "scale49" -> [BodyPlain EXCEPT !.scale = Num(49)]
      [] k = "scale50" -> [BodyPlain EXCEPT !.scale = Num(50)]
      [] k = "scale1000" -> [BodyPlain EXCEPT !.scale = Num(1000)]
      [] k = "scale1001" -> [BodyPlain EXCEPT !.scale = Num(1001)]
      [] k = "scaleStr" -> [BodyPlain EXCEPT !.scale = Str(<<"5", "0", "0">>)]
      [] k = "colorsNone" -> [BodyPlain EXCEPT !.customColors = Obj(NoColors)]
      [] k = "colorShort" ->
           [BodyPlain EXCEPT !.customColors = OneColor("park_color", Str(<<"#", "f", "f", "f">>))]
      [] k = "colorLong" ->
           [BodyPlain EXCEPT !.customColors =
              OneColor("street_color", Str(<<"#", "0", "0", "0", "0", "0", "0", "0">>))]
      [] k = "colorNoHash" ->
           [BodyPlain EXCEPT !.customColors =
              OneColor("building_color", Str(<<"0", "0", "0", "0", "0", "0", "0">>))]
      [] k = "colorBadDigit" ->
           [BodyPlain EXCEPT !.customColors =
              OneColor("background_color", Str(<<"#", "0", "0", "0", "0", "0", "g">>))]
      [] k = "colorEmpty" ->
           [BodyPlain EXCEPT !.customColors = OneColor("water_color", Str(<<>>))]
      [] k = "colorNull" ->
           [BodyPlain EXCEPT !.customColors = OneColor("water_color", Null)]
      [] k = "colorNum" ->
           [BodyPlain EXCEPT !.customColors = OneColor("water_color", Num(0))]
      [] k = "extraKey" -> [BodyPlain EXCEPT !.extra = Str(<<"x">>)]
      [] k = "addr0scale49" -> [BodyPlain EXCEPT !.address = Str(<<>>), !.scale = Num(49)]

\* a request carries one of these payloads, named by a key
BodyKeys == {"plain", "colors", "scale5", "broken"} \cup EdgeKeys
Body(k) ==
    CASE k = "plain" -> BodyPlain
      [] k = "colors" -> BodyColors
      [] k = "scale5" -> BodyScale5
      [] k = "broken" -> BodyBroken
      [] k \in EdgeKeys -> EdgeBody(k)

\* what RequestSchema.parse returns: the fields the schema names, unknown keys dropped
Parsed(b) == [address |-> b.address, mapType |-> b.mapType, scale |-> b.scale,
              customColors |-> b.customColors]

(* ---- responses ---- *)
NoName == <<>>
Err(msg) == [msg |-> msg, code |-> 0, stderr |-> <<>>, issues |-> <<>>]
NoErr == Err("")
NoResp == [status |-> 0, success |-> FALSE, error |-> NoErr, mapUrl |-> NoName]
Json429 == [status |-> 429, success |-> FALSE, error |-> Err("Too many requests"),
            mapUrl |-> NoName]
Json500(e) == [status |-> 500, success |-> FALSE, error |-> e, mapUrl |-> NoName]
\* `/maps/${filename}`
MapUrl(filename) == <<"/maps/", filename>>
Json200(filename) == [status |-> 200, success |-> TRUE, error |-> NoErr,
                      mapUrl |-> MapUrl(filename)]

ZodError(b) == [Err("ZodError") EXCEPT !.issues = RequestSchemaIssues(b)]
ExitErrorNoStderr(code, stderr) == [Err("Process exited with code") EXCEPT !.code = code]
\* new Error(`Process exited with code ${code}\nStderr: ${stderr}`)
ExitError(code, stderr) ==
    [Err("Process exited with code") EXCEPT !.code = code, !.stderr = stderr]

VARIABLES
    now,            \* the clock, in ms (Date.now() and the timers' clock)
    requestCounts,  \* the Map of line 426: client identifier -> count
    timers,         \* per client, the due times of the pending setTimeout callbacks
    dirExists,      \* public/maps exists
    dir,            \* public/maps: file name -> mtimeMs
    reqs,           \* the requests in flight, one per slot
    run             \* the cleanOldFiles call on the stack, if any

vars == <<now, requestCounts, timers, dirExists, dir, reqs, run>>

Clients == {"unknown", "203.0.113.7"}

\* req.headers.get('x-forwarded-for') || 'unknown'
ClientId(h) == IF h = NoHeader \/ h = "" THEN "unknown" ELSE h

GetCountOfUnknown(m, ip) == IF "unknown" \in DOMAIN m THEN m["unknown"] ELSE 0

\* requestCounts.get(ip) || 0
GetCount(m, ip) == IF ip \in DOMAIN m THEN m[ip] ELSE 0
\* requestCounts.set(ip, n)
SetCount(m, ip, n) == [k \in DOMAIN m \cup {ip} |-> IF k = ip THEN n ELSE m[k]]

Max(a, b) == IF a >= b THEN a ELSE b

\* the number of setTimeout callbacks not yet run
Pending == Len(timers["unknown"]) + Len(timers["203.0.113.7"])

EmptyMap == [k \in {} |-> 0]
Without(d, f) == [k \in DOMAIN d \ {f} |-> d[k]]
With(d, f, m) == [k \in DOMAIN d \cup {f} |-> IF k = f THEN m ELSE d[k]]

\* a cleanOldFiles call: the listing, the `now` it sampled, the files still to
\* visit, the file between its stat and its unlink; and, for the record, what it
\* has deleted (name and mtime) and what others deleted under it
NoRun == [req |-> 0, files |-> {}, now |-> 0, todo |-> {}, cur |-> NoName,
          evicted |-> {}, gone |-> {}]

\* a request: where it stands in POST, what it holds, and what it has done so far
\* (seed: the clock reading and the random value its file name was made from;
\* args: the arguments its renderer was started with)
NewReq == [pc |-> "idle", ip |-> "unknown", body |-> "plain", filename |-> NoName,
           seed |-> <<>>,
           args |-> <<>>,
           child |-> "none", stderr |-> <<>>, promise |-> "none", resp |-> NoResp,
           exit |-> <<>>, found |-> "unchecked",
           over |-> FALSE, limited |-> FALSE, fault |-> "", fsOps |-> 0,
           spawns |-> 0, sent |-> 0]

\* what the handler no longer reads once it has returned
Returned(q) == [q EXCEPT !.stderr = <<>>]

Init ==
    /\ now = 0
    /\ requestCounts = EmptyMap
    /\ timers = [c \in Clients |-> <<>>]
    /\ dirExists = FALSE
    /\ dir = EmptyMap
    /\ reqs = [r \in Slots |-> NewReq]
    /\ run = NoRun

IdleNoWait == run.req = 0 /\ \A r \in Slots : reqs[r].pc # "wait"

\* no synchronous section of the handler is on the stack
Idle == run.req = 0

\* return NextResponse.json(resp)
Respond(q, resp) == [Returned(q) EXCEPT !.pc = "done", !.resp = resp, !.sent = @ + 1]

CatchAs200(e) == [Json500(e) EXCEPT !.status = 200]

\* the catch block, lines 515-521 (every value thrown here is an Error)
Catch(e) == Json500(e)

\* an error thrown at `step` inside the try block
Throw(q, step, e) == Respond([q EXCEPT !.fault = step], Catch(e))

(* ---- isRateLimited(ip), lines 525-536 ---- *)
ScheduledAtOnce(t) == t
RateLimitedResultOffByOne(count) == count > RATE_LIMIT
RateLimitedResult(count) == count >= RATE_LIMIT
IncrementedIfAllowed(m, ip) ==
    IF RateLimitedResult(GetCount(m, ip)) THEN m ELSE SetCount(m, ip, GetCount(m, ip) + 1)
Incremented(m, ip) == SetCount(m, ip, GetCount(m, ip) + 1)
Scheduled(t) == t + WINDOW_MS

AfterRateCheckIgnored(q) == [q EXCEPT !.pc = "json"]

\* lines 432-440: the 429, or on to the await of the body
AfterRateCheck(q) ==
    IF q.limited
    THEN Respond([q EXCEPT !.fault = "rate"], Json429)
    ELSE [q EXCEPT !.pc = "json"]

\* POST, lines 429-440: the rate check, then the 429 or the await of the body
Arrive(r, hs, bs, cap) ==
    /\ Idle
    /\ reqs[r].pc \in {"idle", "done"}
    /\ reqs[r].child \in {"none", "closed"}
    /\ Scheduled(now) <= MaxNow
    /\ Pending < cap
    /\ \E h \in hs, b \in bs :
         LET ip == ClientId(h)
             limited == RateLimitedResult(GetCount(requestCounts, ip))
             q == [NewReq EXCEPT !.ip = ip, !.body = b, !.limited = limited,
                                 !.over = Len(timers[ip]) >= RATE_LIMIT]
         IN /\ requestCounts' = Incremented(requestCounts, ip)
            /\ timers' = [timers EXCEPT ![ip] = Append(@, Scheduled(now))]
            /\ reqs' = [reqs EXCEPT ![r] = AfterRateCheck(q)]
    /\ UNCHANGED <<now, dirExists, dir, run>>

DecrementedToZero(m, ip) == SetCount(m, ip, 0)

DecrementedNot(m, ip) == m

\* the setTimeout callback of lines 531-533
Decremented(m, ip) == SetCount(m, ip, Max(0, GetCount(m, ip) - 1))

FireTimer(c) ==
    /\ Idle
    /\ timers[c] # <<>>
    /\ Head(timers[c]) <= now
    /\ requestCounts' = Decremented(requestCounts, c)
    /\ timers' = [timers EXCEPT ![c] = Tail(@)]
    /\ UNCHANGED <<now, dirExists, dir, reqs, run>>

(* ---- POST, lines 440-448: body, validation, mkdir, readdir ---- *)
StaleReversed(t, mtimeMs) == t - mtimeMs < maxAge
Stale(t, mtimeMs) == t - mtimeMs > maxAge

JsonDone(r) ==
    /\ Idle
    /\ reqs[r].pc = "json"
    /\ LET q == reqs[r] IN
       IF ~Body(q.body).json
       THEN /\ reqs' = [reqs EXCEPT ![r] = Throw(q, "json", Err("SyntaxError"))]
            /\ UNCHANGED <<dirExists, dir, run>>
       ELSE IF ~RequestSchemaParses(Body(q.body))
       THEN /\ reqs' = [reqs EXCEPT ![r] = Throw(q, "validate", ZodError(Body(q.body)))]
            /\ UNCHANGED <<dirExists, dir, run>>
       ELSE \E made \in BOOLEAN :
              IF ~made
              THEN /\ ~dirExists
                   /\ reqs' = [reqs EXCEPT ![r] =
                        Throw([q EXCEPT !.fsOps = @ + 1], "mkdir", Err("EACCES: mkdir"))]
                   /\ UNCHANGED <<dirExists, dir, run>>
              ELSE /\ dirExists' = TRUE
                   /\ run' = [NoRun EXCEPT !.req = r, !.files = DOMAIN dir,
                                           !.todo = DOMAIN dir, !.now = now]
                   /\ reqs' = [reqs EXCEPT ![r] =
                        [q EXCEPT !.fsOps = @ + 2,
                                  !.pc = IF DOMAIN dir = {} THEN "alloc" ELSE "evict"]]
                   /\ UNCHANGED dir
    /\ UNCHANGED <<now, requestCounts, timers>>

(* ---- cleanOldFiles, lines 544-550: one fs call per step ---- *)
EvictStat(r) ==
    /\ run.req = r
    /\ reqs[r].pc = "evict"
    /\ run.cur = NoName
    /\ \E f \in run.todo :
         LET q == [reqs[r] EXCEPT !.fsOps = @ + 1]
             rest == run.todo \ {f}
         IN IF f \notin DOMAIN dir
            THEN /\ reqs' = [reqs EXCEPT ![r] = Throw(q, "stat", Err("ENOENT: stat"))]
                 /\ run' = NoRun
            ELSE IF Stale(run.now, dir[f])
            THEN /\ reqs' = [reqs EXCEPT ![r] = q]
                 /\ run' = [run EXCEPT !.cur = f]
            ELSE /\ reqs' = [reqs EXCEPT ![r] =
                      [q EXCEPT !.pc = IF rest = {} THEN "alloc" ELSE "evict"]]
                 /\ run' = [run EXCEPT !.todo = rest]
    /\ UNCHANGED <<now, requestCounts, timers, dirExists, dir>>

EvictUnlink(r) ==
    /\ run.req = r
    /\ reqs[r].pc = "evict"
    /\ run.cur # NoName
    /\ LET f == run.cur
           q == [reqs[r] EXCEPT !.fsOps = @ + 1]
           rest == run.todo \ {f}
       IN IF f \notin DOMAIN dir
          THEN /\ reqs' = [reqs EXCEPT ![r] = Throw(q, "unlink", Err("ENOENT: unlink"))]
               /\ run' = NoRun
               /\ UNCHANGED dir
          ELSE /\ dir' = Without(dir, f)
               /\ reqs' = [reqs EXCEPT ![r] =
                    [q EXCEPT !.pc = IF rest = {} THEN "alloc" ELSE "evict"]]
               /\ run' = [run EXCEPT !.todo = rest, !.cur = NoName,
                                     !.evicted = @ \cup {<<f, dir[f]>>}]
    /\ UNCHANGED <<now, requestCounts, timers, dirExists>>

(* ---- POST, lines 450-476: the file name and the spawn ---- *)
DecimalDigits == <<"0", "1", "2", "3", "4", "5", "6", "7", "8", "9">>
Base36Digits == DecimalDigits \o <<"a", "b", "c", "d", "e", "f", "g", "h", "i", "j", "k", "l", "m",
                                   "n", "o", "p", "q", "r", "s", "t", "u", "v", "w", "x", "y", "z">>

\* `${Date.now()}`: the decimal digits of a non-negative integer
RECURSIVE Decimal(_)
Decimal(n) ==
    IF n < 10 THEN <<DecimalDigits[n + 1]>>
    ELSE Decimal(n \div 10) \o <<DecimalDigits[(n % 10) + 1]>>

\* (k/36).toString(36): "0" for 0, else "0." and the digit k
Base36(k) == IF k = 0 THEN <<"0">> ELSE <<"0", ".", Base36Digits[k + 1]>>

\* s.slice(2)
Slice2(s) == SubSeq(s, 3, Len(s))

FileNameNoRandom(t, rnd) ==
    <<"m", "a", "p", "-">> \o Decimal(t) \o <<"-">> \o <<".", "p", "n", "g">>

\* `map-${Date.now()}-${Math.random().toString(36).slice(2)}.png`
FileName(t, rnd) ==
    <<"m", "a", "p", "-">> \o Decimal(t) \o <<"-">> \o Slice2(Base36(rnd))
        \o <<".", "p", "n", "g">>

\* path.join(process.cwd(), 'scripts', 'generate_map.py'), from the working directory
ScriptPath == <<"scripts", "generate_map.py">>
\* path.join(tempDir, filename)
OutputPath(filename) == <<"public", "maps", filename>>

\* the members of JSON.stringify(customColors): the keys that are present, in the
\* order of the schema, each with its value
RECURSIVE JsonMembers(_, _)
JsonMembers(cc, i) ==
    IF i > Len(ColorKeys) THEN <<>>
    ELSE LET k == ColorKeys[i] IN
         (IF cc[k].t = "undefined" THEN <<>> ELSE << <<k, ":", cc[k].v>> >>)
             \o JsonMembers(cc, i + 1)
JsonStringify(cc) == <<"{">> \o JsonMembers(cc, 1) \o <<"}">>

\* validatedData.customColors ? JSON.stringify(validatedData.customColors) : '{}'
ColorsArg(c) == IF c.t = "undefined" THEN <<"{", "}">> ELSE JsonStringify(c.v)

ArgsScaleFirst(data, filename) ==
    <<ScriptPath, Decimal(data.scale.v), data.mapType.v, data.address.v,
      ColorsArg(data.customColors), OutputPath(filename)>>

\* lines 457-464
Args(data, filename) ==
    <<ScriptPath, data.address.v, data.mapType.v, Decimal(data.scale.v),
      ColorsArg(data.customColors), OutputPath(filename)>>

Spawn(r, rs) ==
    /\ run.req = r
    /\ reqs[r].pc = "alloc"
    /\ \E rnd \in rs, started \in BOOLEAN :
         reqs' = [reqs EXCEPT ![r] =
                    [@ EXCEPT !.pc = "wait", !.filename = FileName(now, rnd),
                              !.seed = <<now, rnd>>,
                              !.args = Args(Parsed(Body(reqs[r].body)), FileName(now, rnd)),
                              !.child = IF started THEN "running" ELSE "failed",
                              !.promise = "pending", !.spawns = @ + 1]]
    /\ run' = NoRun
    /\ UNCHANGED <<now, requestCounts, timers, dirExists, dir>>

(* ---- the renderer process ---- *)
\* the states of a child: "running"; "exited", the process has ended and its output
\* streams are still open; "failed", it could not be started; "errored", the 'error'
\* event of the failed start has been emitted; "closed", the 'close' event has been
\* emitted, after the streams have closed
ChildWrite(r) ==
    /\ reqs[r].child = "running"
    /\ dirExists
    /\ LET f == reqs[r].filename IN
         /\ IF f \in DOMAIN dir THEN dir[f] # now
            ELSE Cardinality(DOMAIN dir) < MaxFiles
         /\ dir' = With(dir, f, now)
    /\ UNCHANGED <<now, requestCounts, timers, dirExists, reqs, run>>

\* lines 486-489
ChildStderr(r) ==
    /\ Idle
    /\ reqs[r].child \in {"running", "exited"}
    /\ Len(reqs[r].stderr) < MaxChunks
    /\ reqs' = [reqs EXCEPT ![r].stderr = Append(@, "E")]
    /\ UNCHANGED <<now, requestCounts, timers, dirExists, dir, run>>

\* a promise settles once: resolve and reject on a settled promise do nothing
Settled(q) == q.promise # "pending"

OnErrorRespawns(q) == [q EXCEPT !.child = "running", !.spawns = @ + 1]

\* lines 499-502, and the catch block when the rejection is the first settlement
OnError(q) ==
    IF Settled(q) THEN q
    ELSE Throw([q EXCEPT !.promise = "rejected"], "spawn", Err("spawn python3 ENOENT"))

\* the 'error' event of a child that could not be started
ChildError(r) ==
    /\ Idle
    /\ reqs[r].child = "failed"
    /\ reqs' = [reqs EXCEPT ![r] = OnError([@ EXCEPT !.child = "errored"])]
    /\ UNCHANGED <<now, requestCounts, timers, dirExists, dir, run>>

ConfirmUnchecked(q) ==
    Respond([q EXCEPT !.found = IF q.filename \in DOMAIN dir THEN "yes" ELSE "no"],
            Json200(q.filename))

Exists(f) == f \in DOMAIN dir

\* lines 505-513: the existence check and the success response
Confirm(q) ==
    IF Exists(q.filename)
    THEN Respond([q EXCEPT !.fsOps = @ + 1, !.found = "yes"], Json200(q.filename))
    ELSE Throw([q EXCEPT !.fsOps = @ + 1, !.found = "no"], "missing",
               Err("Map file was not created"))

OnCloseAlwaysConfirms(q, code) ==
    IF Settled(q) THEN q ELSE Confirm([q EXCEPT !.promise = "resolved"])

OnCloseNoReject(q, code) ==
    IF Settled(q) THEN q
    ELSE IF code = 0 THEN Confirm([q EXCEPT !.promise = "resolved"]) ELSE q

\* lines 491-497, and what follows the await when this settles the promise
OnClose(q, code) ==
    IF Settled(q) THEN q
    ELSE IF code = 0
    THEN Confirm([q EXCEPT !.promise = "resolved"])
    ELSE Throw([q EXCEPT !.promise = "rejected"], "exit", ExitError(code, q.stderr))

\* the 'exit' event: the process has ended with `code`; POST registers no listener
\* for it (lines 481-502 register 'data', 'close' and 'error' only)
OnExitSettles(q, code) == OnClose(q, code)
OnExit(q, code) == q

ChildExit(r) ==
    /\ Idle
    /\ reqs[r].child = "running"
    /\ \E code \in ExitCodes :
         reqs' = [reqs EXCEPT ![r] =
                    OnExit([@ EXCEPT !.child = "exited", !.exit = <<code>>], code)]
    /\ UNCHANGED <<now, requestCounts, timers, dirExists, dir, run>>

\* the 'close' event: after 'exit' with the exit code, once the streams have closed;
\* after the 'error' of a failed start with the negative errno
ChildClose(r) ==
    /\ Idle
    /\ reqs[r].child \in {"exited", "errored"}
    /\ LET code == IF reqs[r].child = "errored" THEN SpawnFailCode ELSE reqs[r].exit[1]
       IN reqs' = [reqs EXCEPT ![r] =
                     OnClose([@ EXCEPT !.child = "closed", !.exit = <<code>>], code)]
    /\ UNCHANGED <<now, requestCounts, timers, dirExists, dir, run>>

(* ---- the outside: another worker, an operator ---- *)
ExternalDelete ==
    /\ \E f \in DOMAIN dir :
         /\ dir' = Without(dir, f)
         /\ run' = IF f \in run.files THEN [run EXCEPT !.gone = @ \cup {f}] ELSE run
    /\ UNCHANGED <<now, requestCounts, timers, dirExists, reqs>>

(* ---- the clock ---- *)
Tick ==
    /\ \A c \in Clients : \A i \in 1..Len(timers[c]) : timers[c][i] > now
    /\ \E t \in Instants :
         /\ t > now
         /\ now' = t
    /\ UNCHANGED <<requestCounts, timers, dirExists, dir, reqs, run>>

Pipeline(r, rs) ==
    \/ JsonDone(r)
    \/ EvictStat(r)
    \/ EvictUnlink(r)
    \/ Spawn(r, rs)
    \/ ChildWrite(r)
    \/ ChildStderr(r)
    \/ ChildError(r)
    \/ ChildExit(r)
    \/ ChildClose(r)

Outside ==
    \/ \E c \in Clients : FireTimer(c)
    \/ ExternalDelete
    \/ Tick

\* one request at a time, from clients that send no usable x-forwarded-for,
\* as many of them within a window as the budget and two more
Next ==
    \/ Arrive(1, Headers \ Clients, {"plain", "scale5", "broken"}, MaxBurst)
    \/ Pipeline(1, {1})
    \/ Outside

Spec == Init /\ [][Next]_vars

\* the rate limiter under two requests in flight whose bodies are refused: every
\* request ends at the rate check or at the validation
NextRate ==
    \/ \E r \in Slots : Arrive(r, Headers \ Clients, {"scale5", "broken"}, MaxBurst)
    \/ \E r \in Slots : JsonDone(r)
    \/ \E c \in Clients : FireTimer(c)
    \/ Tick

SpecRate == Init /\ [][NextRate]_vars

\* the scheduling Node guarantees: the clock advances, and every turn of the event
\* loop runs the timers that are due
FairRate ==
    /\ SpecRate
    /\ WF_vars(Tick)
    /\ \A c \in Clients : SF_vars(FireTimer(c))

\* MaxPair requests, of either client, that arrive within one millisecond and are in
\* flight together, each through the whole pipeline
NextPair ==
    \/ \E r \in Slots : Arrive(r, Headers, {"plain", "colors"}, MaxPair)
    \/ \E r \in Slots : JsonDone(r)
    \/ \E r \in Slots : EvictStat(r)
    \/ \E r \in Slots : Spawn(r, Rand)
    \/ \E r \in Slots : ChildWrite(r)
    \/ \E r \in Slots : ChildStderr(r)
    \/ \E r \in Slots : ChildError(r)
    \/ \E r \in Slots : ChildExit(r)
    \/ \E r \in Slots : ChildClose(r)

SpecPair == Init /\ [][NextPair]_vars

\* the validator on every payload of BodyKeys: one request at a time, whose renderer
\* writes nothing
NextValidate ==
    \/ Arrive(1, {NoHeader}, BodyKeys, MaxBurst)
    \/ JsonDone(1)
    \/ Spawn(1, {1})
    \/ ChildError(1)
    \/ ChildExit(1)
    \/ ChildClose(1)

SpecValidate == Init /\ [][NextValidate]_vars

\* the rate limiter under requests of two clients, one request at a time
NextClients ==
    \/ Arrive(1, Headers, {"broken"}, MaxBurst)
    \/ JsonDone(1)
    \/ \E c \in Clients : FireTimer(c)
    \/ Tick

SpecClients == Init /\ [][NextClients]_vars

\* one request at a time from its arrival to its answer, while the clock runs and
\* the timers fire; the renderer writes nothing
NextWait ==
    \/ Arrive(1, {NoHeader}, {"plain"}, MaxPair)
    \/ JsonDone(1)
    \/ Spawn(1, {1})
    \/ ChildStderr(1)
    \/ ChildError(1)
    \/ ChildExit(1)
    \/ ChildClose(1)
    \/ \E c \in Clients : FireTimer(c)
    \/ Tick

SpecWait == Init /\ [][NextWait]_vars

\* every child ends: a started one exits and its streams close, a failed start is
\* reported; Node then runs the listeners
FairWait ==
    /\ SpecWait
    /\ WF_vars(ChildError(1))
    /\ WF_vars(ChildExit(1))
    /\ WF_vars(ChildClose(1))

(***************************************************************************)
(* The claims                                                              *)
(***************************************************************************)

\* C1: a request that arrives when at least RATE_LIMIT (10) earlier requests of its
\* client are still within their window (none of their scheduled decrements has
\* fired) is rejected, with status 429 and {success: false, error: "Too many requests"}
C1_OverBudgetRejected ==
    \A r \in Slots :
        reqs[r].over =>
            /\ reqs[r].pc = "done"
            /\ reqs[r].resp.status = 429
            /\ reqs[r].resp.success = FALSE
            /\ reqs[r].resp.error.msg = "Too many requests"

C1_Witness ==
    \E r \in Slots :
        /\ reqs[r].over
        /\ reqs[r].resp.status = 429
        /\ Len(timers["unknown"]) = RATE_LIMIT + 1

\* C2: a request the rate limiter rejected never reaches the renderer: nothing is
\* spawned for it, no file system call is made and no file name is allocated
C2_RejectedNeverRenders ==
    \A r \in Slots :
        reqs[r].limited =>
            /\ reqs[r].pc = "done"
            /\ reqs[r].fault = "rate"
            /\ reqs[r].spawns = 0
            /\ reqs[r].fsOps = 0
            /\ reqs[r].filename = NoName
            /\ reqs[r].child = "none"
            /\ reqs[r].promise = "none"
            /\ run.req # r

C2_Witness ==
    \E r \in Slots :
        /\ reqs[r].limited
        /\ reqs[r].resp.status = 429
        /\ reqs[r].body = "plain"

\* C7: no lost updates: whatever the interleaving of rate checks and expiry timers,
\* a client's counter equals the number of its increments whose timer is still
\* pending (increments made minus timers fired)
C7_NoLostUpdates ==
    \A c \in Clients : GetCount(requestCounts, c) = Len(timers[c])

\* two requests of one client in flight, an expiry due and later increments pending
C7_Witness ==
    \E c \in Clients :
        /\ Len(timers[c]) >= 3
        /\ timers[c][1] <= now
        /\ timers[c][Len(timers[c])] > now
        /\ \A r \in Slots : reqs[r].pc = "json"

\* C3: a request whose payload fails validation (scale 5) does no file system or
\* subprocess work: no mkdir, no eviction, no file name, no spawn; it is answered
\* {success: false, error: <the validation message>}
C3_InvalidRejectedFirst ==
    \A r \in Slots :
        (reqs[r].pc # "idle" /\ reqs[r].body = "scale5") =>
            /\ reqs[r].pc \in {"json", "done"}
            /\ reqs[r].fsOps = 0
            /\ reqs[r].spawns = 0
            /\ reqs[r].filename = NoName
            /\ reqs[r].child = "none"
            /\ run.req # r
            /\ (reqs[r].pc = "done" /\ ~reqs[r].limited) =>
                   /\ reqs[r].fault = "validate"
                   /\ reqs[r].resp.success = FALSE
                   /\ reqs[r].resp.error.msg = "ZodError"
                   /\ reqs[r].resp.error.issues = <<"scale">>

C3_Witness ==
    \E r \in Slots :
        /\ reqs[r].body = "scale5"
        /\ reqs[r].fault = "validate"
        /\ reqs[r].resp.error.issues = <<"scale">>
        /\ dirExists

\* C4: the handler answers 200 {success: true, mapUrl: the allocated name} if and
\* only if the renderer closed with exit code 0 and the output file existed when
\* checked; exit 0 with no file is reported as a failure
C4_SuccessIffExitZeroAndFile ==
    \A r \in Slots :
        reqs[r].pc = "done" =>
            /\ reqs[r].resp.success <=>
                   (reqs[r].exit = <<0>> /\ reqs[r].found = "yes")
            /\ reqs[r].resp.success =>
                   /\ reqs[r].resp.status = 200
                   /\ reqs[r].resp.mapUrl = MapUrl(reqs[r].filename)
                   /\ reqs[r].filename # NoName
            /\ (reqs[r].exit = <<0>> /\ reqs[r].found = "no") =>
                   /\ reqs[r].resp.status = 500
                   /\ reqs[r].resp.error.msg = "Map file was not created"

C4_Witness ==
    \E r \in Slots :
        /\ reqs[r].pc = "done"
        /\ reqs[r].exit = <<0>>
        /\ reqs[r].found = "no"
        /\ ~reqs[r].resp.success

\* C8: every error of a request (rate limit, body parsing, validation, mkdir,
\* eviction, spawn, non-zero exit, missing file) ends in exactly one response
\* {success: false, error: <message>}, with status 429 for the rate limit and 500
\* for the rest; a request that has ended has answered exactly once
C8_ErrorsBecomeResponses ==
    \A r \in Slots :
        /\ reqs[r].sent = IF reqs[r].pc = "done" THEN 1 ELSE 0
        /\ reqs[r].fault # "" =>
               /\ reqs[r].pc = "done"
               /\ reqs[r].resp.success = FALSE
               /\ reqs[r].resp.error.msg # ""
               /\ reqs[r].resp.mapUrl = NoName
               /\ reqs[r].resp.status = IF reqs[r].fault = "rate" THEN 429 ELSE 500
        /\ (reqs[r].pc = "done" /\ reqs[r].fault = "") =>
               /\ reqs[r].resp.success
               /\ reqs[r].resp.status = 200
        /\ reqs[r].promise = "rejected" => reqs[r].fault \in {"spawn", "exit"}

C8_Witness ==
    \E r \in Slots :
        /\ reqs[r].fault = "exit"
        /\ reqs[r].resp.status = 500
        /\ reqs[r].resp.error.code = 1
        /\ reqs[r].resp.error.stderr # <<>>

\* C9: a file that another actor removes between the listing and its stat or unlink
\* raises no error in the eviction, and the request goes on to the renderer
C9_EvictionToleratesVanishedFile ==
    \A r \in Slots : reqs[r].fault \notin {"stat", "unlink"}

\* C10: when cleanOldFiles returns, every listed file older than maxAge (against the
\* `now` it sampled) is gone from the directory, and it has deleted no file that is
\* not older than maxAge
C10_EvictionPostcondition ==
    \A r \in Slots :
        (run.req = r /\ reqs[r].pc = "alloc") =>
            /\ \A f \in run.files :
                   f \in DOMAIN dir => run.now - dir[f] <= maxAge
            /\ \A e \in run.evicted : run.now - e[2] > maxAge
            /\ \A f \in run.files :
                   f \notin DOMAIN dir =>
                       f \in run.gone \/ \E e \in run.evicted : e[1] = f
            /\ run.todo = {}

C10_Witness ==
    \E r \in Slots :
        /\ run.req = r
        /\ reqs[r].pc = "alloc"
        /\ run.evicted # {}
        /\ \E f \in run.files : f \in DOMAIN dir /\ dir[f] < run.now

Range(q) == {q[i] : i \in 1..Len(q)}
DueTimes == {t + WINDOW_MS : t \in Instants}

\* a rate check of client c: its counter goes up
Checks(c) == GetCount(requestCounts', c) > GetCount(requestCounts, c)

\* C5: acceptance resumes: a check that finds fewer than RATE_LIMIT increments of its
\* client unexpired (their timers not yet fired) is allowed, also after a rejection;
\* and a client that makes no further calls has its counter return to 0
C5_AcceptanceResumes ==
    /\ [][\A c \in Clients :
            (Checks(c) /\ Len(timers[c]) < RATE_LIMIT) =>
                \E r \in Slots :
                    /\ reqs'[r] # reqs[r]
                    /\ reqs'[r].pc = "json"
                    /\ ~reqs'[r].limited]_vars
    /\ \A c \in Clients :
          (<>[][~Checks(c)]_vars) => <>[](GetCount(requestCounts, c) = 0)

C5_Witness ==
    \E r \in Slots :
        /\ reqs[r].limited
        /\ reqs[r].pc = "done"
        /\ GetCount(requestCounts, "unknown") < RATE_LIMIT
        /\ GetCount(requestCounts, "unknown") > 0

\* what one step may do to client c's counter: nothing; one increment, with a timer
\* set one window ahead; or one decrement of one, by the oldest timer, once it is due
CountStep(c) ==
    LET n == GetCount(requestCounts, c)
        m == GetCount(requestCounts', c)
    IN \/ m = n /\ timers'[c] = timers[c]
       \/ m = n + 1 /\ timers'[c] = Append(timers[c], now + WINDOW_MS)
       \/ /\ m = n - 1
          /\ timers[c] # <<>>
          /\ timers'[c] = Tail(timers[c])
          /\ now >= Head(timers[c])

\* C6: the counter is never negative, and every increment is undone by exactly one
\* decrement of one, not before its window has elapsed: each increment sets one
\* timer, each timer fires once, when due, and every timer does fire
C6_OneDecrementPerIncrement ==
    /\ [](\A c \in Clients : GetCount(requestCounts, c) >= 0)
    /\ [][\A c \in Clients : CountStep(c)]_vars
    /\ \A c \in Clients : \A d \in DueTimes :
          (d \in Range(timers[c])) ~> (d \notin Range(timers[c]))

C6_Witness ==
    \E c \in Clients :
        /\ c \in DOMAIN requestCounts
        /\ requestCounts[c] = 0
        /\ timers[c] = <<>>
        /\ now >= WINDOW_MS

SettledStates == {"resolved", "rejected"}

\* C11 as stated: the promise is never settled before the 'close' event of the child
C11_SettledOnlyOnClose ==
    \A r \in Slots :
        reqs[r].promise \in SettledStates => reqs[r].child = "closed"

\* C11: the promise of an invocation settles exactly once.  For a child that was
\* started it settles on 'close': never on 'exit', never while the streams are open.
\* For a child that could not be started it settles on the 'error' event, and the
\* 'close' that follows changes neither the outcome nor the response.
C11_SettlesOnce ==
    /\ [](\A r \in Slots :
            /\ reqs[r].promise \in SettledStates =>
                   \/ reqs[r].child = "closed"
                   \/ reqs[r].child = "errored" /\ reqs[r].fault = "spawn"
            /\ reqs[r].child \in {"running", "exited", "failed"} =>
                   reqs[r].promise = "pending"
            /\ reqs[r].child = "closed" => reqs[r].promise \in SettledStates)
    /\ [][\A r \in Slots :
            reqs[r].promise \in SettledStates =>
                \/ reqs'[r] = NewReq \/ reqs'[r].pc = "json" \/ reqs'[r].fault = "rate"
                \/ /\ reqs'[r].promise = reqs[r].promise
                   /\ reqs'[r].resp = reqs[r].resp
                   /\ reqs'[r].sent = reqs[r].sent]_vars

\* a failed start: rejected on 'error', then closed
C11_Witness ==
    \E r \in Slots :
        /\ reqs[r].child = "closed"
        /\ reqs[r].exit = <<SpawnFailCode>>
        /\ reqs[r].promise = "rejected"
        /\ reqs[r].fault = "spawn"

\* C12: the renderer's outcome: 'close' with exit code 0 resolves the promise; 'close'
\* with a non-zero exit code rejects it with an error that carries that code and the
\* stderr captured up to the close; a failed start rejects it with the system error
\* of the 'error' event
C12_OutcomeMapping ==
    /\ [](\A r \in Slots :
            /\ reqs[r].promise = "resolved" <=>
                   (reqs[r].child = "closed" /\ reqs[r].exit = <<0>>)
            /\ (reqs[r].child = "closed" /\ reqs[r].exit \notin {<<0>>, <<SpawnFailCode>>}) =>
                   /\ reqs[r].promise = "rejected"
                   /\ reqs[r].fault = "exit"
                   /\ reqs[r].resp.error.msg = "Process exited with code"
                   /\ reqs[r].resp.error.code = reqs[r].exit[1]
            /\ reqs[r].child \in {"errored", "closed"} /\ reqs[r].exit \in {<<>>, <<SpawnFailCode>>} =>
                   /\ reqs[r].promise = "rejected"
                   /\ reqs[r].fault = "spawn"
                   /\ reqs[r].resp.error.msg = "spawn python3 ENOENT")
    /\ [][\A r \in Slots :
            (reqs[r].child = "exited" /\ reqs'[r].child = "closed" /\ reqs[r].exit # <<0>>) =>
                reqs'[r].resp.error.stderr = reqs[r].stderr]_vars

\* a child that wrote to stderr and exited with code 1, after its close
C12_Witness ==
    \E r \in Slots :
        /\ reqs[r].child = "closed"
        /\ reqs[r].exit = <<1>>
        /\ reqs[r].promise = "rejected"
        /\ reqs[r].resp.error.stderr = <<"E">>

\* C13 as stated: no two requests are ever assigned the same file name
C13_NamesNeverRepeat ==
    \A r1, r2 \in Slots :
        (r1 # r2 /\ reqs[r1].filename # NoName /\ reqs[r2].filename # NoName) =>
            reqs[r1].filename # reqs[r2].filename

\* C13: two requests are assigned the same file name only if both read the same
\* millisecond from the clock and Math.random() gave both the same value; requests
\* that differ in either, also within one millisecond, get different names
C13_SameNameOnlyOnSameDraw ==
    /\ \A r1, r2 \in Slots :
          (reqs[r1].filename # NoName /\ reqs[r2].filename # NoName) =>
              (reqs[r1].filename = reqs[r2].filename <=> reqs[r1].seed = reqs[r2].seed)
    /\ \A r \in Slots : \A t \in Instants : \A k \in Rand :
          (reqs[r].filename = FileName(t, k)) => reqs[r].seed = <<t, k>>

\* two requests named in the same millisecond with different random values
C13_Witness ==
    \E r1, r2 \in Slots :
        /\ reqs[r1].seed # <<>> /\ reqs[r2].seed # <<>>
        /\ reqs[r1].seed[1] = reqs[r2].seed[1]
        /\ reqs[r1].seed[2] # reqs[r2].seed[2]
        /\ reqs[r1].filename # reqs[r2].filename

\* the rules of C14 on a payload, as the claim words them
C14_Rules(b) ==
    /\ b.address.t = "string" /\ Len(b.address.v) \in 1..200
    /\ b.mapType.t = "string" /\ b.mapType.v \in MapTypes
    /\ b.scale.t = "number" /\ b.scale.v \in 50..1000
    /\ b.customColors.t = "object" =>
          \A i \in 1..Len(ColorKeys) :
              LET e == b.customColors.v[ColorKeys[i]] IN
              e.t # "undefined" =>
                  /\ e.t = "string"
                  /\ Len(e.v) = 7
                  /\ Head(e.v) = "#"
                  /\ \A j \in 1..6 : Tail(e.v)[j] \in HexDigits

\* C14: the validator accepts a payload (the request goes on past validation) if and
\* only if address has a length in 1..200, mapType is one of the ten styles, scale is
\* a number in 50..1000 and every customColors entry that is present matches
\* ^#[0-9A-Fa-f]{6}$; what it returns has the payload's values of these four fields;
\* a refused payload is answered with the rules it broke
C14_ValidatorAcceptsIffRules ==
    \A r \in Slots :
        LET q == reqs[r]
            b == Body(q.body)
        IN (q.pc \notin {"idle", "json"} /\ q.fault \notin {"rate", "json"}) =>
              /\ (q.fault # "validate") <=> C14_Rules(b)
              /\ q.fault = "validate" =>
                     /\ q.resp.error.msg = "ZodError"
                     /\ q.resp.error.issues # <<>>
                     /\ q.spawns = 0
              /\ q.fault # "validate" =>
                     /\ Parsed(b).address = b.address
                     /\ Parsed(b).mapType = b.mapType
                     /\ Parsed(b).scale = b.scale
                     /\ Parsed(b).customColors = b.customColors
                     /\ DOMAIN Parsed(b) = {"address", "mapType", "scale", "customColors"}

\* an address of exactly 200 characters, accepted and rendered
C14_Witness ==
    \E r \in Slots :
        /\ reqs[r].body = "addr200"
        /\ reqs[r].spawns = 1

\* the steps of POST a request may take from each position, and the faults that may
\* end it there: "json" is Validating, "evict" and "alloc" are Preparing, "wait" is
\* Invoking and then Confirming, "done" is Responding or Errored
C15_After(pc) ==
    CASE pc = "json" -> {"evict", "alloc", "done"}
      [] pc = "evict" -> {"evict", "alloc", "done"}
      [] pc = "alloc" -> {"wait"}
      [] pc = "wait" -> {"wait", "done"}
      [] OTHER -> {}
C15_Faults(pc) ==
    CASE pc = "json" -> {"json", "validate", "mkdir"}
      [] pc = "evict" -> {"stat", "unlink"}
      [] pc = "wait" -> {"spawn", "exit", "missing", ""}
      [] OTHER -> {}

\* C15: a request goes through the rate check, validation, preparation (directory,
\* eviction, file name), the renderer, the confirmation and the response in that
\* order, each at most once; a step runs only if all earlier steps succeeded; the
\* first failure ends the request with that step's error, and an ended request
\* does nothing more
C15_StepsInOrder ==
    /\ [](\A r \in Slots :
            LET q == reqs[r] IN
            /\ q.pc \in {"evict", "alloc", "wait"} \/ q.spawns > 0 \/ q.fsOps > 0 =>
                   /\ ~q.limited
                   /\ Body(q.body).json
                   /\ RequestSchemaParses(Body(q.body))
            /\ q.pc \in {"alloc", "wait"} \/ q.spawns > 0 =>
                   dirExists /\ q.fsOps >= 2
            /\ q.spawns <= 1 /\ q.sent <= 1
            /\ q.spawns = 1 <=> q.filename # NoName
            /\ q.found # "unchecked" =>
                   q.spawns = 1 /\ q.exit = <<0>> /\ q.promise = "resolved"
            /\ q.pc = "done" =>
                   (q.fault = "" <=> q.found = "yes") /\ (q.fault = "missing" <=> q.found = "no")
            /\ q.fault \in {"rate", "json", "validate", "mkdir", "stat", "unlink"} =>
                   q.spawns = 0 /\ q.found = "unchecked")
    /\ [][\A r \in Slots :
            LET q == reqs[r]
                n == reqs'[r]
            IN n # q =>
                 \/ /\ q.pc \in {"idle", "done"}
                    /\ n.pc = "json" \/ (n.pc = "done" /\ n.fault = "rate")
                    /\ n.spawns = 0 /\ n.fsOps = 0 /\ n.sent = (IF n.pc = "done" THEN 1 ELSE 0)
                 \/ /\ q.pc = "done"
                    /\ q.child # "closed"
                    /\ n = [q EXCEPT !.child = "closed", !.exit = n.exit]
                 \/ /\ n.pc \in C15_After(q.pc)
                    /\ n.pc = "done" => n.fault \in C15_Faults(q.pc)
                    /\ n.pc # "done" => n.fault = ""
                    /\ n.spawns >= q.spawns /\ n.fsOps >= q.fsOps]_vars

\* a request that went through every step, its eviction having visited a file
C15_Witness ==
    \E r \in Slots :
        /\ reqs[r].pc = "done"
        /\ reqs[r].fault = ""
        /\ reqs[r].fsOps >= 4
        /\ reqs[r].found = "yes"

\* a request as the rate check leaves it: waiting for its body, or refused
C16_Checked(q) == q.pc = "json" \/ (q.pc = "done" /\ q.fault = "rate")

\* C16: every rate check adds one to its client's counter, also when it refuses, and
\* sets that increment's timer one window ahead; it allows exactly when the counter
\* was below RATE_LIMIT before the increment.  So refused calls use up budget: the
\* counter rises above RATE_LIMIT and each refused call holds one unit for a window.
C16_EveryCheckCounts ==
    /\ [][\A r \in Slots :
            (reqs'[r] # reqs[r] /\ C16_Checked(reqs'[r]) /\ reqs[r].pc \in {"idle", "done"}) =>
                \E c \in Clients :
                    /\ GetCount(requestCounts', c) = GetCount(requestCounts, c) + 1
                    /\ timers'[c] = Append(timers[c], now + WINDOW_MS)
                    /\ reqs'[r].limited <=> GetCount(requestCounts, c) >= RATE_LIMIT
                    /\ (reqs'[r].pc = "json") <=> GetCount(requestCounts, c) < RATE_LIMIT]_vars
    /\ [][\A c \in Clients :
            Checks(c) =>
                /\ GetCount(requestCounts', c) = GetCount(requestCounts, c) + 1
                /\ \E r \in Slots :
                      /\ \A o \in Slots \ {r} : reqs'[o] = reqs[o]
                      /\ C16_Checked(reqs'[r])
                      /\ reqs'[r].limited <=> GetCount(requestCounts, c) >= RATE_LIMIT]_vars

\* a second refused call in a row: the counter is two above the budget
C16_Witness ==
    \E r \in Slots : \E c \in Clients :
        /\ reqs[r].limited
        /\ reqs[r].fault = "rate"
        /\ GetCount(requestCounts, c) = RATE_LIMIT + 2
        /\ Len(timers[c]) = RATE_LIMIT + 2

\* C17: nothing is retried: a request spawns the renderer at most once, and after a
\* non-zero exit, a failed start or an exit 0 without the file it is over, with that
\* one spawn
C17_NoRetry ==
    /\ [](\A r \in Slots :
            /\ reqs[r].spawns <= 1
            /\ reqs[r].fault \in {"exit", "spawn", "missing"} =>
                   /\ reqs[r].pc = "done"
                   /\ reqs[r].spawns = 1
                   /\ reqs[r].child \in {"errored", "closed"}
                   /\ reqs[r].resp.status = 500)
    /\ [][\A r \in Slots :
            reqs'[r].spawns > reqs[r].spawns =>
                /\ reqs[r].pc = "alloc"
                /\ reqs[r].spawns = 0
                /\ reqs[r].child = "none"]_vars

\* the renderer exited with 0 and left no file: answered, not run again
C17_Witness ==
    \E r \in Slots :
        /\ reqs[r].fault = "missing"
        /\ reqs[r].spawns = 1
        /\ reqs[r].child = "closed"

\* C18: a request that waits for its renderer blocks no other request: while it
\* waits, another request can arrive and be checked, and a request at any position
\* can take its next step, up to its response
C18_WaitDoesNotBlock ==
    \A w, r \in Slots :
        (w # r /\ reqs[w].pc = "wait" /\ reqs[w].child \in {"running", "exited"}) =>
            /\ (reqs[r].pc \in {"idle", "done"} /\ reqs[r].child \in {"none", "closed"}
                   /\ Pending < MaxPair) =>
                   ENABLED Arrive(r, Headers, {"plain", "colors"}, MaxPair)
            /\ reqs[r].pc = "json" => ENABLED JsonDone(r)
            /\ reqs[r].pc = "evict" => ENABLED EvictStat(r)
            /\ reqs[r].pc = "alloc" => ENABLED Spawn(r, Rand)
            /\ reqs[r].child = "running" => ENABLED ChildExit(r)
            /\ reqs[r].child = "failed" => ENABLED ChildError(r)
            /\ reqs[r].child \in {"exited", "errored"} => ENABLED ChildClose(r)

\* a request that was validated when the other's renderer had already written its
\* file, and that has its 200 while the other still waits
C18_Witness ==
    \E w, r \in Slots :
        /\ reqs[w].pc = "wait"
        /\ reqs[w].child = "running"
        /\ reqs[r].pc = "done"
        /\ reqs[r].resp.status = 200
        /\ reqs[r].fsOps = 4

\* C19: the renderer is started only for a payload that passed validation, with the
\* six arguments script path, address, mapType, scale as a decimal string,
\* customColors as JSON text and the output path, in that order; the customColors
\* argument is {} when the request has no customColors, and the output path is the
\* path of the file name allocated for this request
C19_RendererArguments ==
    \A r \in Slots :
        LET q == reqs[r]
            b == Body(q.body)
        IN /\ q.spawns = 0 => q.args = <<>>
           /\ q.spawns > 0 =>
                 /\ b.json /\ RequestSchemaParses(b) /\ ~q.limited
                 /\ Len(q.args) = 6
                 /\ q.args[1] = <<"scripts", "generate_map.py">>
                 /\ q.args[2] = b.address.v
                 /\ q.args[3] = b.mapType.v
                 /\ q.args[4] = (IF b.scale.v = 500 THEN <<"5", "0", "0">> ELSE Decimal(b.scale.v))
                 /\ b.customColors.t = "undefined" => q.args[5] = <<"{", "}">>
                 /\ q.body = "colors" =>
                        q.args[5] = <<"{", <<"water_color", ":",
                                             <<"#", "0", "0", "a", "A", "f", "F">> >>, "}">>
                 /\ q.args[6] = <<"public", "maps", q.filename>>
                 /\ q.filename # NoName
                 /\ \A o \in Slots \ {r} :
                        (reqs[o].spawns > 0 /\ reqs[o].seed # q.seed) =>
                            reqs[o].args[6] # q.args[6]

\* two renderers started, one with a colour and one without
C19_Witness ==
    \E r, o \in Slots :
        /\ reqs[r].body = "colors" /\ reqs[r].spawns = 1
        /\ reqs[o].body = "plain" /\ reqs[o].spawns = 1
        /\ reqs[r].args[5] # reqs[o].args[5]

\* the counter stored under key c, 0 when there is none
C20_Count(m, c) == IF c \in DOMAIN m THEN m[c] ELSE 0

\* C20: the rate-limit state of one client is its own: a check of client c and the
\* timers it set change the counter and the timers of c only, and a check's verdict
\* depends on the unexpired calls of its own client only, so a client that is over
\* budget never has another client refused; requests without an x-forwarded-for
\* header (or with an empty one) share the record of key 'unknown'
C20_ClientsIsolated ==
    /\ [](/\ DOMAIN requestCounts \subseteq Clients
          /\ \A r \in Slots : reqs[r].ip \in Clients)
    /\ [][\A c \in Clients :
            (C20_Count(requestCounts', c) # C20_Count(requestCounts, c)
                 \/ timers'[c] # timers[c]) =>
                \A d \in Clients \ {c} :
                    /\ C20_Count(requestCounts', d) = C20_Count(requestCounts, d)
                    /\ timers'[d] = timers[d]]_vars
    /\ [][\A c \in Clients :
            Len(timers'[c]) > Len(timers[c]) =>
                \E r \in Slots :
                    /\ C16_Checked(reqs'[r])
                    /\ reqs'[r].ip = c
                    /\ reqs'[r].limited <=> Len(timers[c]) >= RATE_LIMIT]_vars

\* client 'unknown' is over its budget and the other client's request is allowed
C20_Witness ==
    \E r \in Slots :
        /\ C20_Count(requestCounts, "unknown") > RATE_LIMIT
        /\ reqs[r].ip = "203.0.113.7"
        /\ reqs[r].pc = "json"
        /\ ~reqs[r].limited

\* C21: once the renderer is spawned, the request ends (with its 200 or its error)
\* exactly when the child emits 'close' or 'error': it waits as long as neither has
\* come, whatever time passes, for there is no timeout and no cancellation; and if
\* every child ends, every request that waits is answered
C21_EndsOnChildEvent ==
    /\ [](\A r \in Slots :
            /\ reqs[r].pc = "wait" => reqs[r].child \in {"running", "exited", "failed"}
            /\ reqs[r].child \in {"errored", "closed"} =>
                   reqs[r].pc = "done" /\ reqs[r].sent = 1
            /\ reqs[r].spawns = 1 => reqs[r].pc \in {"wait", "done"})
    /\ [][\A r \in Slots :
            (reqs[r].pc = "wait" /\ reqs'[r].pc # "wait") =>
                /\ reqs'[r].pc = "done"
                /\ reqs'[r].child \in {"errored", "closed"}]_vars
    /\ \A r \in Slots : (reqs[r].pc = "wait") ~> (reqs[r].pc = "done")

\* a request spawned at time 0 whose child is still running more than an hour later
C21_Witness ==
    \E r \in Slots :
        /\ reqs[r].pc = "wait"
        /\ reqs[r].child = "running"
        /\ reqs[r].seed[1] = 0
        /\ now = MaxNow
====
